---- MODULE Spec2Model ----
(***************************************************************************)
(* Order-book reconstruction engine of polytrader.                         *)
(*                                                                         *)
(* The repository holds two OrderBook classes with the same ladder code    *)
(* and different snapshot histories:                                       *)
(*   agents/trackers/order_book.py     history = two DataFrames, one       *)
(*                                     column per timestamp (outer join)   *)
(*   agents/trackers/market_tracker.py history = two dicts timestamp ->    *)
(*                                     copy of the ladder                  *)
(* Both are driven by the same events here; what belongs to the            *)
(* market_tracker.py class carries the prefix mt_.                         *)
(*                                                                         *)
(* Prices and sizes are the floats the handlers parse from the feed's      *)
(* decimal strings, counted in ticks / lots (integers).  A timestamp is    *)
(* the feed's decimal string, kept as its sequence of digits, because the  *)
(* code compares timestamps as strings.  A DataFrame indexed by price is   *)
(* the sequence of its rows, in row order.                                 *)
(***************************************************************************)
EXTENDS Integers, Sequences, FiniteSets, TLC

\* ---- bounds of the model ----
MaxPrice == 2
MaxSize == 1
MaxBookLevels == 3
MaxChanges == 2
MaxEvents == 2

Prices == 1..MaxPrice
Sizes == 0..MaxSize
Sides == {"SELL", "BUY"}
\* the decimal strings "2" and "10": 2 < 10 as numbers, "10" < "2" as strings
Timestamps == {<<2>>, <<1, 0>>}

\* what a query returns: a float, None, NaN, or an exception raised
Value(v) == [kind |-> "value", value |-> v]
None == [kind |-> "None", value |-> 0]
NaN == [kind |-> "NaN", value |-> 0]
Raise(exc) == [kind |-> exc, value |-> 0]

\* threshold_pct arguments of calculate_vwap_mid_price, in percent
Thresholds == {0, 50, 100}

VARIABLES
    asks, bids,                     \* OrderBook.asks / OrderBook.bids (both classes)
    asks_history, bids_history,     \* order_book.py: DataFrames, a column per timestamp
    mt_asks_history, mt_bids_history, \* market_tracker.py: dicts timestamp -> ladder
    last,                           \* the last call: operation, message, ladders before it, exception
    steps,                          \* number of calls made so far
    last_trade, trades,             \* OrderBook.last_trade (<<>> is None) / OrderBook.trades rows
    running,                        \* MarketChannel.running
    websocket,                      \* MarketChannel.websocket: a socket number, 0 is None
    sockets,                        \* the sockets websockets.connect has opened: "open" / "closed"
    tasks,                          \* the _message_handler tasks created so far
    callbacks,                      \* MarketChannel.callbacks: asset id -> list of callbacks
    calls,                          \* the callback invocations made so far, in order
    received,                       \* number of frames recv() has returned
    ch_last,                        \* the last step of the channel
    closed,                         \* close() has returned and connect() was not called since
    reg_last                        \* the last add_outcome_callback / remove_outcome_callback call

book_vars == <<asks, bids, asks_history, bids_history, mt_asks_history, mt_bids_history>>
trade_vars == <<last_trade, trades>>
channel_vars ==
    <<running, websocket, sockets, tasks, callbacks, calls, received, ch_last, closed, reg_last>>
vars == <<book_vars, last, steps, trade_vars, channel_vars>>

\* ---- values ----
Level(p, s) == [price |-> p, size |-> s]
Levels == [price : Prices, size : Sizes]
Changes == [price : Prices, side : Sides, size : Sizes]

SeqsUpTo(S, n) == UNION {[1..k -> S] : k \in 0..n}

PricesOf(l) == {l[i].price : i \in DOMAIN l}

\* the level lists of a book message: one entry per price, in any order
DistinctPrices(l) == \A i, j \in DOMAIN l : i # j => l[i].price # l[j].price
LevelLists == {l \in SeqsUpTo(Levels, MaxBookLevels) : DistinctPrices(l)}

BookMessages ==
    {m \in [event_type : {"book"}, asks : LevelLists, bids : LevelLists,
            timestamp : Timestamps] : Len(m.asks) + Len(m.bids) <= MaxBookLevels}

PriceChangeMessages ==
    {[event_type |-> "price_change", changes |-> c, timestamp |-> t] :
        c \in SeqsUpTo(Changes, MaxChanges), t \in Timestamps}

\* ---- str comparison (timestamps are str) ----
RECURSIVE StrLess(_, _)
StrLess(a, b) ==
    IF a = <<>> THEN b # <<>>
    ELSE IF b = <<>> THEN FALSE
    ELSE IF a[1] # b[1] THEN a[1] < b[1]
    ELSE StrLess(Tail(a), Tail(b))

\* the number a timestamp string denotes
RECURSIVE TsValue(_)
TsValue(t) == IF t = <<>> THEN 0 ELSE 10 * TsValue(SubSeq(t, 1, Len(t) - 1)) + t[Len(t)]

\* ---- DataFrame indexed by price, one 'size' column ----
EmptyLadder == <<>>

SizeAt(l, p) == LET i == CHOOSE i \in DOMAIN l : l[i].price = p IN l[i].size
HasLevel(l, p) == p \in PricesOf(l)

\* drop without inplace=True: the result is thrown away
DropIndexNotInplace(l, p) == l

\* df.drop(index=price, errors='ignore', inplace=True)
DropIndex(l, p) == SelectSeq(l, LAMBDA x : x.price # p)

\* df.loc[price] += size on an existing row: accumulate instead of replace
SetLocAdd(l, p, s) ==
    IF HasLevel(l, p)
    THEN [i \in DOMAIN l |-> IF l[i].price = p THEN Level(p, l[i].size + s) ELSE l[i]]
    ELSE Append(l, Level(p, s))

\* df.loc[price] = size : overwrite the row, or enlarge the frame by one row
SetLoc(l, p, s) ==
    IF HasLevel(l, p)
    THEN [i \in DOMAIN l |-> IF l[i].price = p THEN Level(p, s) ELSE l[i]]
    ELSE Append(l, Level(p, s))

\* df.sort_index(ascending=...)
SortIndex(l, ascending) ==
    SortSeq(l, LAMBDA x, y : IF ascending THEN x.price < y.price ELSE x.price > y.price)

\* ---- order_book.py history: a DataFrame indexed by price, one column per timestamp ----
\* index: the row labels in row order; cols: the column labels in column order;
\* cell[t]: the non-NaN cells of column t, price -> size
EmptyFrame == [index |-> <<>>, cols |-> <<>>, cell |-> [t \in {} |-> <<>>]]

Columns(h) == {h.cols[i] : i \in DOMAIN h.cols}

\* DataFrame.empty: some axis has length 0
FrameEmpty(h) == h.index = <<>> \/ h.cols = <<>>

LadderCells(l) == [p \in PricesOf(l) |-> SizeAt(l, p)]

\* self.asks.rename(columns={'size': timestamp})
Rename(l, timestamp) ==
    [index |-> [i \in DOMAIN l |-> l[i].price],
     cols |-> <<timestamp>>,
     cell |-> [t \in {timestamp} |-> LadderCells(l)]]

RECURSIVE SortedIndex(_, _)
SortedIndex(S, ascending) ==
    IF S = {} THEN <<>>
    ELSE LET m == CHOOSE x \in S : \A y \in S : IF ascending THEN x <= y ELSE x >= y
         IN <<m>> \o SortedIndex(S \ {m}, ascending)

\* history.join(other=ladder.rename(...), how='outer') followed by sort_index
JoinOuter(h, l, timestamp, ascending) ==
    [index |-> SortedIndex({h.index[i] : i \in DOMAIN h.index} \cup PricesOf(l), ascending),
     cols |-> Append(h.cols, timestamp),
     cell |-> [t \in Columns(h) \cup {timestamp} |->
                 IF t = timestamp THEN LadderCells(l) ELSE h.cell[t]]]

\* one side of OrderBook._save_snapshot; join raises ValueError when the column exists
SaveSide(h, l, timestamp, ascending) ==
    IF ~FrameEmpty(h)
    THEN IF l # EmptyLadder
         THEN IF timestamp \in Columns(h)
              THEN [raised |-> TRUE, frame |-> h]
              ELSE [raised |-> FALSE, frame |-> JoinOuter(h, l, timestamp, ascending)]
         ELSE [raised |-> FALSE, frame |-> h]
    ELSE [raised |-> FALSE, frame |-> Rename(l, timestamp)]

\* OrderBook._save_snapshot of order_book.py, on histories ah / bh and ladders
\* a (asks) / b (bids)
save_snapshot(ah, bh, a, b, timestamp) ==
    LET sa == SaveSide(ah, a, timestamp, TRUE)
        sb == SaveSide(bh, b, timestamp, FALSE)
    IN  IF sa.raised
        THEN [raised |-> "ValueError", asks_history |-> ah, bids_history |-> bh]
        ELSE IF sb.raised
        THEN [raised |-> "ValueError", asks_history |-> sa.frame, bids_history |-> bh]
        ELSE [raised |-> "none", asks_history |-> sa.frame, bids_history |-> sb.frame]

\* OrderBook._save_snapshot of market_tracker.py: history[timestamp] = ladder.copy()
mt_save_snapshot(h, l, timestamp) ==
    [t \in DOMAIN h \cup {timestamp} |-> IF t = timestamp THEN l ELSE h[t]]

\* df.drop(columns=labels, inplace=True); KeyError when a label is no column
DropColumns(h, labels) ==
    IF labels \subseteq Columns(h)
    THEN [raised |-> FALSE,
          frame |-> [index |-> h.index,
                     cols |-> SelectSeq(h.cols, LAMBDA t : t \notin labels),
                     cell |-> [t \in Columns(h) \ labels |-> h.cell[t]]]]
    ELSE [raised |-> TRUE, frame |-> h]

\* ---- the handlers ----
\* one iteration of the loop over message['changes']
ApplyChange(lad, change) ==
    IF change.side = "SELL"
    THEN IF change.size = 0
         THEN [lad EXCEPT !.asks = DropIndex(lad.asks, change.price)]
         ELSE [lad EXCEPT !.asks = SetLoc(lad.asks, change.price, change.size)]
    ELSE IF change.size = 0
         THEN [lad EXCEPT !.bids = DropIndex(lad.bids, change.price)]
         ELSE [lad EXCEPT !.bids = SetLoc(lad.bids, change.price, change.size)]

RECURSIVE ApplyChanges(_, _)
ApplyChanges(lad, changes) ==
    IF changes = <<>> THEN lad
    ELSE ApplyChanges(ApplyChange(lad, Head(changes)), Tail(changes))

\* the ladders update_from_price_change makes of a / b: all changes applied, then
\* both sorted
PriceChangeLadders(a, b, message) ==
    LET lad == ApplyChanges([asks |-> a, bids |-> b], message.changes)
    IN  [asks |-> SortIndex(lad.asks, TRUE), bids |-> SortIndex(lad.bids, FALSE)]

\* update_from_book that keeps the old levels the message does not name
BookLaddersMerge(message) ==
    [asks |-> message.asks \o SelectSeq(asks, LAMBDA x : x.price \notin PricesOf(message.asks)),
     bids |-> message.bids \o SelectSeq(bids, LAMBDA x : x.price \notin PricesOf(message.bids))]

\* the ladders update_from_book leaves: the message's lists as they come
BookLadders(message) == [asks |-> message.asks, bids |-> message.bids]

Call(op, message, raised) ==
    [op |-> op, message |-> message, asks |-> asks, bids |-> bids, raised |-> raised]

\* the fields of an OrderBook (of both classes), and the exception of the last handler
Book ==
    [asks |-> asks, bids |-> bids, asks_history |-> asks_history,
     bids_history |-> bids_history, mt_asks_history |-> mt_asks_history,
     mt_bids_history |-> mt_bids_history, last_trade |-> last_trade, trades |-> trades,
     raised |-> "none"]

\* a handler that acts on events of every type
ExpectsAny(message, event_type) == TRUE

\* if message['event_type'] != <the handler's type>: return
Expects(message, event_type) == message.event_type = event_type

\* the body of update_from_book on book ob: pd.DataFrame([])[['price', 'size']]
\* raises KeyError before anything is assigned
BookResult(ob, message) ==
    IF ~Expects(message, "book") THEN [ob EXCEPT !.raised = "none"]
    ELSE IF message.asks = <<>> \/ message.bids = <<>>
    THEN [ob EXCEPT !.raised = "KeyError"]
    ELSE LET new == BookLadders(message)
             snap == save_snapshot(ob.asks_history, ob.bids_history,
                                   new.asks, new.bids, message.timestamp)
         IN  [ob EXCEPT !.asks = new.asks, !.bids = new.bids,
                        !.asks_history = snap.asks_history,
                        !.bids_history = snap.bids_history,
                        !.mt_asks_history = mt_save_snapshot(@, new.asks, message.timestamp),
                        !.mt_bids_history = mt_save_snapshot(@, new.bids, message.timestamp),
                        !.raised = snap.raised]

\* a triple without its 'size' key: change['size'] raises KeyError
MalformedChanges == [price : Prices, side : Sides]

Malformed(change) == "size" \notin DOMAIN change

\* the triples the loop has applied when it reaches the first malformed one
RECURSIVE AppliedPrefix(_)
AppliedPrefix(changes) ==
    IF changes = <<>> \/ Malformed(Head(changes)) THEN <<>>
    ELSE <<Head(changes)>> \o AppliedPrefix(Tail(changes))

\* the body of update_from_price_change on book ob: the loop changes self.asks /
\* self.bids in place, so a KeyError at a later triple leaves the earlier triples
\* applied, unsorted and without a snapshot
PriceChangeResult(ob, message) ==
    IF ~Expects(message, "price_change") THEN [ob EXCEPT !.raised = "none"]
    ELSE IF \E i \in DOMAIN message.changes : Malformed(message.changes[i])
    THEN LET lad == ApplyChanges([asks |-> ob.asks, bids |-> ob.bids],
                                 AppliedPrefix(message.changes))
         IN  [ob EXCEPT !.asks = lad.asks, !.bids = lad.bids, !.raised = "KeyError"]
    ELSE LET new == PriceChangeLadders(ob.asks, ob.bids, message)
             snap == save_snapshot(ob.asks_history, ob.bids_history,
                                   new.asks, new.bids, message.timestamp)
         IN  [ob EXCEPT !.asks = new.asks, !.bids = new.bids,
                        !.asks_history = snap.asks_history,
                        !.bids_history = snap.bids_history,
                        !.mt_asks_history = mt_save_snapshot(@, new.asks, message.timestamp),
                        !.mt_bids_history = mt_save_snapshot(@, new.bids, message.timestamp),
                        !.raised = snap.raised]

\* the fee_rate_bps strings of the trade messages
FeeRates == {<<0>>}

TradeMessages ==
    [event_type : {"last_trade_price"}, price : Prices, size : Sizes, side : Sides,
     timestamp : Timestamps, fee_rate_bps : FeeRates]

\* LastTrade(price, size, side, timestamp, fee_rate_bps)
LastTrade(message) ==
    [price |-> message.price, size |-> message.size, side |-> message.side,
     timestamp |-> message.timestamp, fee_rate_bps |-> message.fee_rate_bps]

\* the row of self.trades built from self.last_trade: no fee_rate_bps column
TradeRow(trade) ==
    [price |-> trade.price, size |-> trade.size, side |-> trade.side,
     timestamp |-> trade.timestamp]

\* pd.concat([new_trade, self.trades]): the arguments swapped
ConcatSwapped(tape, row) == <<row>> \o tape

\* pd.concat([self.trades, new_trade], ignore_index=True)
Concat(tape, row) == Append(tape, row)

\* the body of update_last_trade on book ob
LastTradeResult(ob, message) ==
    IF ~Expects(message, "last_trade_price") THEN [ob EXCEPT !.raised = "none"]
    ELSE
    [ob EXCEPT !.last_trade = <<LastTrade(message)>>,
               !.trades = Concat(@, TradeRow(LastTrade(message))),
               !.raised = "none"]

\* the book becomes what the handler left
Becomes(r) ==
    /\ asks' = r.asks
    /\ bids' = r.bids
    /\ asks_history' = r.asks_history
    /\ bids_history' = r.bids_history
    /\ mt_asks_history' = r.mt_asks_history
    /\ mt_bids_history' = r.mt_bids_history
    /\ last_trade' = r.last_trade
    /\ trades' = r.trades

\* OrderBook.update_from_book
update_from_book(message) ==
    /\ steps < MaxEvents
    /\ steps' = steps + 1
    /\ Becomes(BookResult(Book, message))
    /\ last' = Call("update_from_book", message, BookResult(Book, message).raised)
    /\ UNCHANGED channel_vars

\* OrderBook.update_from_price_change
update_from_price_change(message) ==
    /\ steps < MaxEvents
    /\ steps' = steps + 1
    /\ Becomes(PriceChangeResult(Book, message))
    /\ last' = Call("update_from_price_change", message,
                    PriceChangeResult(Book, message).raised)
    /\ UNCHANGED channel_vars

\* OrderBook.update_last_trade
update_last_trade(message) ==
    /\ steps < MaxEvents
    /\ steps' = steps + 1
    /\ Becomes(LastTradeResult(Book, message))
    /\ last' = Call("update_last_trade", message, "none")
    /\ UNCHANGED channel_vars

\* the columns / keys clear_history_before drops: ts < timestamp on str
TimestampsToDrop(keys, timestamp) == {ts \in keys : StrLess(ts, timestamp)}

\* OrderBook.clear_history_before, both classes
clear_history_before(timestamp) ==
    /\ steps < MaxEvents
    /\ steps' = steps + 1
    /\ LET to_drop == TimestampsToDrop(Columns(asks_history), timestamp)
           da == DropColumns(asks_history, to_drop)
           db == DropColumns(bids_history, to_drop)
           mt_keep == DOMAIN mt_asks_history \ TimestampsToDrop(DOMAIN mt_asks_history, timestamp)
       IN  /\ asks_history' = da.frame
           /\ bids_history' = db.frame
           /\ mt_asks_history' = [t \in mt_keep |-> mt_asks_history[t]]
           /\ mt_bids_history' = [t \in mt_keep |-> mt_bids_history[t]]
           /\ last' = Call("clear_history_before", [timestamp |-> timestamp],
                           IF db.raised THEN "KeyError" ELSE "none")
    /\ UNCHANGED <<asks, bids>>
    /\ UNCHANGED trade_vars
    /\ UNCHANGED channel_vars

\* ---- MarketChannel ----
MaxSockets == 2
MaxFrames == 2
MaxCallbacks == 2

\* market_obj.outcomes and their clob token ids
Outcomes == {"Yes", "No"}

outcomes_id == [outcome \in Outcomes |-> IF outcome = "Yes" THEN "A1" ELSE "A2"]

AssetIds == {outcomes_id[outcome] : outcome \in Outcomes}

\* what dict.get returns for a missing key
NoOutcome == "None"

\* self.id_to_outcome.get(asset_id)
id_to_outcome(asset_id) ==
    IF asset_id \in AssetIds
    THEN CHOOSE outcome \in Outcomes : outcomes_id[outcome] = asset_id
    ELSE NoOutcome

\* the callbacks a consumer registers: "apply" hands the event to the three
\* handlers of an OrderBook, "fail" raises on every event
Callbacks == {"apply", "fail"}

\* the events of the frames
BookEvent(asset_id) ==
    [event_type |-> "book", asset_id |-> asset_id, asks |-> <<Level(2, 1)>>,
     bids |-> <<Level(1, 1)>>, timestamp |-> <<2>>]

PriceChangeEvent(asset_id) ==
    [event_type |-> "price_change", asset_id |-> asset_id,
     changes |-> <<[price |-> 1, side |-> "SELL", size |-> 1]>>, timestamp |-> <<1, 0>>]

TradeEvent(asset_id) ==
    [event_type |-> "last_trade_price", asset_id |-> asset_id, price |-> 1, size |-> 1,
     side |-> "BUY", timestamp |-> <<2>>, fee_rate_bps |-> <<0>>]

\* a dict without 'asset_id'
NoAssetEvent == [event_type |-> "tick"]

\* what recv() returns: text ast.literal_eval parses into the list messages (a
\* single dict is wrapped into a list), or text it does not parse
NoFrame == [parses |-> FALSE, messages |-> <<>>]

\* a book and a trade of one asset in one frame
BatchFrame == [parses |-> TRUE, messages |-> <<BookEvent("A1"), TradeEvent("A1")>>]

Frames ==
    {BatchFrame,
     [parses |-> TRUE, messages |-> <<PriceChangeEvent("A1"), TradeEvent("A2")>>],
     [parses |-> TRUE, messages |-> <<TradeEvent("AX"), NoAssetEvent>>],
     NoFrame}

\* a step of the channel: operation, exception, frame and task of a recv, and
\* self.running before the step
Step(op, raised, frame, task) ==
    [op |-> op, raised |-> raised, frame |-> frame, task |-> task, running |-> running]

\* a call of add_outcome_callback / remove_outcome_callback from outside a callback
RegCall(op, outcome, callback) == [op |-> op, outcome |-> outcome, callback |-> callback]

\* the body of add_outcome_callback on the dict reg
AddCallback(reg, asset_id, callback) ==
    [a \in DOMAIN reg \cup {asset_id} |->
        IF a = asset_id
        THEN Append(IF a \in DOMAIN reg THEN reg[a] ELSE <<>>, callback)
        ELSE reg[a]]

\* the last x leaves the list
RECURSIVE RemoveLast(_, _)
RemoveLast(list, x) ==
    IF list = <<>> THEN <<>>
    ELSE IF list[Len(list)] = x THEN SubSeq(list, 1, Len(list) - 1)
    ELSE RemoveLast(SubSeq(list, 1, Len(list) - 1), x) \o <<list[Len(list)]>>

\* list.remove(x): the first x leaves the list
RECURSIVE Remove(_, _)
Remove(list, x) ==
    IF list = <<>> THEN <<>>
    ELSE IF Head(list) = x THEN Tail(list)
    ELSE <<Head(list)>> \o Remove(Tail(list), x)

\* the body of remove_outcome_callback on the dict reg
RemoveCallback(reg, asset_id, callback) ==
    IF /\ asset_id \in DOMAIN reg
       /\ \E i \in DOMAIN reg[asset_id] : reg[asset_id][i] = callback
    THEN LET list == Remove(reg[asset_id], callback)
         IN  [a \in IF list = <<>> THEN DOMAIN reg \ {asset_id} ELSE DOMAIN reg |->
                 IF a = asset_id THEN list ELSE reg[a]]
    ELSE reg

\* every callback of the registry, whatever the asset of the event
CallbacksOfEveryAsset(reg, data) ==
    IF "asset_id" \in DOMAIN data /\ id_to_outcome(data.asset_id) # NoOutcome
    THEN (IF "A1" \in DOMAIN reg THEN reg["A1"] ELSE <<>>)
            \o (IF "A2" \in DOMAIN reg THEN reg["A2"] ELSE <<>>)
    ELSE <<>>

\* the list the inner loop runs over: reg.get(asset_id) when the dict has
\* 'asset_id' and the id has an outcome
CallbacksFor(reg, data) ==
    IF /\ "asset_id" \in DOMAIN data
       /\ id_to_outcome(data.asset_id) # NoOutcome
       /\ data.asset_id \in DOMAIN reg
    THEN reg[data.asset_id]
    ELSE <<>>

\* the "apply" callback: the handler of the event's type acts, the other two
\* return at their event_type test
Handle(ob, data) ==
    IF data.event_type = "book" THEN BookResult(ob, data)
    ELSE IF data.event_type = "price_change" THEN PriceChangeResult(ob, data)
    ELSE IF data.event_type = "last_trade_price" THEN LastTradeResult(ob, data)
    ELSE [ob EXCEPT !.raised = "none"]

\* callback(outcome, data) on the book, the invocations and the registry: "apply"
\* applies the event, "once" unregisters itself from the event's asset, "fail" raises
CallbackResult(acc, call) ==
    IF call.callback = "apply" THEN [acc EXCEPT !.ob = Handle(@, call.data)]
    ELSE IF call.callback = "once"
    THEN [acc EXCEPT !.ob.raised = "none",
                     !.callbacks = RemoveCallback(@, call.data.asset_id, "once")]
    ELSE [acc EXCEPT !.ob.raised = "Exception"]

\* the list walked from its end
ListItemFromEnd(list, i) == list[Len(list) + 1 - i]

\* for callback in callbacks: the list iterator at index i takes list[i]
ListItem(list, i) == list[i]

\* a raising callback ends the loop over the list
NextIndexAbort(raised, list, i) == IF raised # "none" THEN Len(list) + 1 ELSE i + 1

\* except Exception around callback(outcome, data): printed, the iterator goes on
NextIndex(raised, list, i) == i + 1

\* for callback in callbacks, from the iterator's index i on, for the event data at
\* place pos of the frame. callbacks is the list object the dict holds for the
\* asset, so a remove by a callback shortens the list under the iterator; when the
\* last callback leaves, the entry is deleted and the loop's list is empty
RECURSIVE Deliver(_, _, _, _)
Deliver(acc, data, pos, i) ==
    LET list == CallbacksFor(acc.callbacks, data)
    IN  IF i > Len(list) THEN acc
        ELSE LET call == [callback |-> ListItem(list, i),
                          outcome |-> id_to_outcome(data.asset_id),
                          data |-> data, frame |-> received + 1, pos |-> pos]
                 after == CallbackResult([acc EXCEPT !.calls = Append(@, call)], call)
             IN  Deliver(after, data, pos, NextIndex(after.ob.raised, list, i))

\* the events walked from the end of the array
PlaceFromEnd(messages, k) == Len(messages) + 1 - k

\* for data in messages: the k-th turn of the loop takes messages[k]
Place(messages, k) == k

\* the two loops of _message_handler over one frame, from the k-th event on
RECURSIVE RunCalls(_, _, _)
RunCalls(acc, messages, k) ==
    IF k > Len(messages) THEN acc
    ELSE LET pos == Place(messages, k)
         IN  RunCalls(Deliver(acc, messages[pos], pos, 1), messages, k + 1)

\* a _message_handler task: where it is, the socket whose recv() it awaits, how it
\* ended, and the websockets.connect calls it has made (the handler has none)
Task(pc, sock, exit) == [pc |-> pc, sock |-> sock, exit |-> exit, attempts |-> 0]

\* MarketChannel.connect, taken as one step; outcome says which await raises
connect(outcome) ==
    /\ outcome \in {"ok", "connect", "send"}
    /\ closed' = FALSE
    /\ IF outcome = "connect"
       THEN /\ ch_last' = Step("connect", "Exception", NoFrame, 0)
            /\ UNCHANGED <<running, websocket, sockets, tasks>>
       ELSE /\ Len(sockets) < MaxSockets
            /\ sockets' = Append(sockets, "open")
            /\ websocket' = Len(sockets) + 1
            /\ running' = TRUE
            /\ IF outcome = "send"
               THEN /\ ch_last' = Step("connect", "Exception", NoFrame, 0)
                    /\ UNCHANGED tasks
               ELSE /\ ch_last' = Step("connect", "none", NoFrame, 0)
                    /\ tasks' = Append(tasks, Task("loop", 0, "none"))
    /\ UNCHANGED <<book_vars, trade_vars, last, steps, reg_last, callbacks, calls, received>>

\* while self.running and self.websocket: ... await self.websocket.recv()
\* recv() raises RuntimeError when another task already waits on the socket
ReaderLoop(t) ==
    /\ tasks[t].pc = "loop"
    /\ IF running /\ websocket # 0
       THEN IF \E u \in DOMAIN tasks : tasks[u].pc = "recv" /\ tasks[u].sock = websocket
            THEN /\ tasks' = [tasks EXCEPT ![t] = Task("done", 0, "Exception")]
                 /\ ch_last' = Step("loop", "RuntimeError", NoFrame, t)
            ELSE /\ tasks' = [tasks EXCEPT ![t] = Task("recv", websocket, "none")]
                 /\ ch_last' = Step("loop", "none", NoFrame, t)
       ELSE /\ tasks' = [tasks EXCEPT ![t] = Task("done", 0, "none")]
            /\ ch_last' = Step("loop", "none", NoFrame, t)
    /\ UNCHANGED <<book_vars, trade_vars, last, steps, reg_last, running, websocket, sockets,
                   callbacks, calls, received, closed>>

\* recv() returns a frame: parse, then the two loops over events and callbacks
ReaderRecv(t, frame) ==
    /\ tasks[t].pc = "recv"
    /\ sockets[tasks[t].sock] = "open"
    /\ received < MaxFrames
    /\ received' = received + 1
    /\ LET acc == [ob |-> Book, calls |-> calls, callbacks |-> callbacks]
           run == IF frame.parses THEN RunCalls(acc, frame.messages, 1) ELSE acc
       IN  /\ Becomes(run.ob)
           /\ calls' = run.calls
           /\ callbacks' = run.callbacks
    /\ tasks' = [tasks EXCEPT ![t] = Task("loop", 0, "none")]
    /\ ch_last' = Step("recv", "none", frame, t)
    /\ UNCHANGED <<last, steps, reg_last, running, websocket, sockets, closed>>

\* recv() raises ConnectionClosed: printed, the handler returns
ReaderClosed(t) ==
    /\ tasks[t].pc = "recv"
    /\ sockets[tasks[t].sock] = "closed"
    /\ tasks' = [tasks EXCEPT ![t] = Task("done", 0, "ConnectionClosed")]
    /\ ch_last' = Step("recv", "ConnectionClosed", NoFrame, t)
    /\ UNCHANGED <<book_vars, trade_vars, last, steps, reg_last, running, websocket, sockets,
                   callbacks, calls, received, closed>>

\* the server or the network ends connection s
ServerDrop(s) ==
    /\ sockets[s] = "open"
    /\ sockets' = [sockets EXCEPT ![s] = "closed"]
    /\ UNCHANGED <<book_vars, trade_vars, last, steps, reg_last, running, websocket, tasks,
                   callbacks, calls, received, ch_last, closed>>

\* the number of callbacks in the registry
RECURSIVE SumLen(_)
SumLen(S) ==
    IF S = {} THEN 0
    ELSE LET a == CHOOSE x \in S : TRUE IN Len(callbacks[a]) + SumLen(S \ {a})

Registered == SumLen(DOMAIN callbacks)

\* MarketChannel.add_outcome_callback
add_outcome_callback(outcome, callback) ==
    /\ callbacks' = AddCallback(callbacks, outcomes_id[outcome], callback)
    /\ reg_last' = RegCall("add_outcome_callback", outcome, callback)
    /\ UNCHANGED <<book_vars, trade_vars, last, steps, running, websocket, sockets,
                   tasks, calls, received, ch_last, closed>>

\* MarketChannel.remove_outcome_callback
remove_outcome_callback(outcome, callback) ==
    /\ callbacks' = RemoveCallback(callbacks, outcomes_id[outcome], callback)
    /\ reg_last' = RegCall("remove_outcome_callback", outcome, callback)
    /\ UNCHANGED <<book_vars, trade_vars, last, steps, running, websocket, sockets,
                   tasks, calls, received, ch_last, closed>>

\* MarketChannel.close
close ==
    /\ running' = FALSE
    /\ IF websocket # 0
       THEN sockets' = [sockets EXCEPT ![websocket] = "closed"]
       ELSE UNCHANGED sockets
    /\ closed' = TRUE
    /\ ch_last' = Step("close", "none", NoFrame, 0)
    /\ UNCHANGED <<book_vars, trade_vars, last, steps, reg_last, websocket, tasks, callbacks,
                   calls, received>>

\* OrderBook.__init__ and MarketChannel.__init__
Init ==
    /\ asks = EmptyLadder
    /\ bids = EmptyLadder
    /\ asks_history = EmptyFrame
    /\ bids_history = EmptyFrame
    /\ mt_asks_history = [t \in {} |-> <<>>]
    /\ mt_bids_history = [t \in {} |-> <<>>]
    /\ last = [op |-> "__init__", message |-> [timestamp |-> <<>>],
               asks |-> EmptyLadder, bids |-> EmptyLadder, raised |-> "none"]
    /\ steps = 0
    /\ last_trade = <<>>
    /\ trades = <<>>
    /\ running = FALSE
    /\ websocket = 0
    /\ sockets = <<>>
    /\ tasks = <<>>
    /\ callbacks = <<>>
    /\ calls = <<>>
    /\ received = 0
    /\ ch_last = Step("__init__", "none", NoFrame, 0)
    /\ closed = FALSE
    /\ reg_last = RegCall("__init__", NoOutcome, NoOutcome)

Next ==
    \/ \E message \in BookMessages : update_from_book(message)
    \/ \E message \in PriceChangeMessages : update_from_price_change(message)
    \/ \E timestamp \in Timestamps : clear_history_before(timestamp)

Spec == Init /\ [][Next]_vars

\* ---- the trade tape among the other events ----
\* one-level book messages and one-change price_change messages at the lowest price
SmallBookMessages ==
    {m \in BookMessages : m.asks = <<Level(1, 1)>> /\ m.bids = <<Level(1, 1)>>}

SmallPriceChangeMessages ==
    {m \in PriceChangeMessages : Len(m.changes) = 1 /\ m.changes[1].price = 1}

NextTrades ==
    \/ \E message \in TradeMessages : update_last_trade(message)
    \/ \E message \in SmallBookMessages : update_from_book(message)
    \/ \E message \in SmallPriceChangeMessages : update_from_price_change(message)
    \/ \E timestamp \in Timestamps : clear_history_before(timestamp)

SpecTrades == Init /\ [][NextTrades]_vars

\* ---- events that raise while they are applied ----
\* price_change messages with a triple that has no 'size'
FaultyPriceChangeMessages ==
    {m \in [event_type : {"price_change"},
            changes : SeqsUpTo(Changes \cup MalformedChanges, MaxChanges),
            timestamp : Timestamps] :
        \E i \in DOMAIN m.changes : Malformed(m.changes[i])}

\* book messages with an empty level list, and the one-level ones
FaultyBookMessages ==
    {m \in BookMessages : m.asks = <<>> \/ m.bids = <<>>} \cup SmallBookMessages

NextFaults ==
    \/ \E message \in FaultyBookMessages : update_from_book(message)
    \/ \E message \in FaultyPriceChangeMessages : update_from_price_change(message)

SpecFaults == Init /\ [][NextFaults]_vars

\* ---- handlers called with events of any type ----
EventTypes == {"book", "price_change", "last_trade_price", "tick_size_change", "unknown"}

\* events of every type that carry the keys of all three handled types, so that
\* only the event_type test keeps a handler from acting on them
AnyTypeMessages ==
    [event_type : EventTypes, asks : {<<Level(1, 1)>>},
     bids : {<<Level(1, 1)>>, <<Level(2, 1)>>},
     changes : {<<[price |-> 1, side |-> "SELL", size |-> 0]>>},
     price : {1}, size : {1}, side : {"BUY"}, timestamp : Timestamps,
     fee_rate_bps : FeeRates]

NextAnyType ==
    \/ \E message \in AnyTypeMessages : update_from_book(message)
    \/ \E message \in AnyTypeMessages : update_from_price_change(message)
    \/ \E message \in AnyTypeMessages : update_last_trade(message)

SpecAnyType == Init /\ [][NextAnyType]_vars

\* ---- the registry: registrations and removals in any order ----
MaxRegistered == 3

NextRegistry ==
    \/ \E outcome \in Outcomes, callback \in Callbacks :
          Registered < MaxRegistered /\ add_outcome_callback(outcome, callback)
    \/ \E outcome \in Outcomes, callback \in Callbacks : remove_outcome_callback(outcome, callback)

SpecRegistry == Init /\ [][NextRegistry]_vars

\* ---- dispatch to callbacks that change the registry ----
\* "once" unregisters itself when it is invoked, "apply" stays
ReentrantCallbacks == {"once", "apply"}

ReentrantFrames ==
    {BatchFrame, [parses |-> TRUE, messages |-> <<PriceChangeEvent("A1"), TradeEvent("A2")>>]}

NextReentrant ==
    \/ sockets = <<>> /\ connect("ok")
    \/ \E t \in DOMAIN tasks : ReaderLoop(t)
    \/ \E t \in DOMAIN tasks, frame \in ReentrantFrames : ReaderRecv(t, frame)
    \/ \E outcome \in Outcomes, callback \in ReentrantCallbacks :
          Registered < MaxCallbacks /\ add_outcome_callback(outcome, callback)

SpecReentrant == Init /\ [][NextReentrant]_vars

\* ---- dispatch: one connection, any registry, any frame ----
NextDispatch ==
    \/ sockets = <<>> /\ connect("ok")
    \/ \E t \in DOMAIN tasks : ReaderLoop(t)
    \/ \E t \in DOMAIN tasks, frame \in Frames : ReaderRecv(t, frame)
    \/ \E outcome \in Outcomes, callback \in Callbacks :
          Registered < MaxCallbacks /\ add_outcome_callback(outcome, callback)
    \/ \E outcome \in Outcomes, callback \in Callbacks : remove_outcome_callback(outcome, callback)

SpecDispatch == Init /\ [][NextDispatch]_vars

\* ---- the connection: connects, losses and closes, one OrderBook listening ----
NextConnection ==
    \/ \E outcome \in {"ok", "connect", "send"} : connect(outcome)
    \/ \E t \in DOMAIN tasks : ReaderLoop(t)
    \/ \E t \in DOMAIN tasks : ReaderRecv(t, BatchFrame)
    \/ \E t \in DOMAIN tasks : ReaderClosed(t)
    \/ \E s \in DOMAIN sockets : ServerDrop(s)
    \/ Registered < MaxCallbacks /\ add_outcome_callback("Yes", "apply")
    \/ close

SpecConnection == Init /\ [][NextConnection]_vars

\* ---- queries ----
SetMin(S) == CHOOSE x \in S : \A y \in S : x <= y
SetMax(S) == CHOOSE x \in S : \A y \in S : x >= y

PositivePrices(l) == {l[i].price : i \in {j \in DOMAIN l : l[j].size > 0}}

\* order_book.py: self.asks[self.asks['size'] > 0].index.min(); min() of an empty index is NaN
BestOf(l, lowest) ==
    IF l # EmptyLadder
    THEN IF PositivePrices(l) = {} THEN NaN
         ELSE Value(IF lowest THEN SetMin(PositivePrices(l)) ELSE SetMax(PositivePrices(l)))
    ELSE None

get_best_ask == BestOf(asks, TRUE)
get_best_bid == BestOf(bids, FALSE)

\* market_tracker.py: self.asks.index.min(), whatever the sizes
mt_BestOf(l, lowest) ==
    IF l # EmptyLadder
    THEN Value(IF lowest THEN SetMin(PricesOf(l)) ELSE SetMax(PricesOf(l)))
    ELSE None

mt_get_best_ask == mt_BestOf(asks, TRUE)
mt_get_best_bid == mt_BestOf(bids, FALSE)

\* bool(x) of what get_best_ask returns: None and 0.0 are falsy, NaN is truthy
Truthy(x) == x.kind = "NaN" \/ (x.kind = "value" /\ x.value # 0)

\* get_spread, both classes: best_ask[0] subscripts a float and raises
SpreadOf(best_ask, best_bid) ==
    IF Truthy(best_ask) /\ Truthy(best_bid) THEN Raise("IndexError") ELSE None

get_spread == SpreadOf(get_best_ask, get_best_bid)
mt_get_spread == SpreadOf(mt_get_best_ask, mt_get_best_bid)

\* pd.DataFrame({'size': history[timestamp]}).dropna(): the rows of one column
ColumnLadder(h, timestamp) ==
    LET present == SelectSeq(h.index, LAMBDA p : p \in DOMAIN h.cell[timestamp])
    IN  [i \in DOMAIN present |-> Level(present[i], h.cell[timestamp][present[i]])]

NoBook == [found |-> FALSE, asks |-> EmptyLadder, bids |-> EmptyLadder]

\* order_book.py get_order_book_at_timestamp; (None, None) is NoBook
get_order_book_at_timestamp(timestamp) ==
    IF timestamp \notin Columns(asks_history) \/ timestamp \notin Columns(bids_history)
    THEN NoBook
    ELSE [found |-> TRUE, asks |-> ColumnLadder(asks_history, timestamp),
          bids |-> ColumnLadder(bids_history, timestamp)]

\* market_tracker.py get_order_book_at_timestamp: dict.get on both histories
mt_get_order_book_at_timestamp(timestamp) ==
    IF timestamp \notin DOMAIN mt_asks_history \/ timestamp \notin DOMAIN mt_bids_history
    THEN NoBook
    ELSE [found |-> TRUE, asks |-> mt_asks_history[timestamp],
          bids |-> mt_bids_history[timestamp]]

\* sorted(keys) on str
RECURSIVE SortedStr(_)
SortedStr(S) ==
    IF S = {} THEN <<>>
    ELSE LET m == CHOOSE x \in S : \A y \in S \ {x} : StrLess(x, y)
         IN <<m>> \o SortedStr(S \ {m})

get_timestamps == SortedStr(Columns(asks_history))
mt_get_timestamps == SortedStr(DOMAIN mt_asks_history)

\* ---- calculate_vwap_mid_price ----
\* a VWAP is the exact fraction num / den; kind "None" when there is none
Frac(n, d) == [kind |-> "value", num |-> n, den |-> d]
NoFrac == [kind |-> "None", num |-> 0, den |-> 1]
RaiseFrac(exc) == [kind |-> exc, num |-> 0, den |-> 1]
FracEq(x, y) == x.kind = y.kind /\ x.num * y.den = y.num * x.den

\* (valid.index * valid['size']).sum() and valid['size'].sum()
RECURSIVE TotalValue(_)
TotalValue(l) == IF l = <<>> THEN 0 ELSE Head(l).price * Head(l).size + TotalValue(Tail(l))

RECURSIVE TotalVolume(_)
TotalVolume(l) == IF l = <<>> THEN 0 ELSE Head(l).size + TotalVolume(Tail(l))

\* the levels within the threshold of the best price (index.min() / index.max())
WithinThreshold(l, threshold_pct, is_asks) ==
    LET best == IF is_asks THEN SetMin(PricesOf(l)) ELSE SetMax(PricesOf(l))
    IN  SelectSeq(l, LAMBDA x :
            IF is_asks THEN 100 * x.price <= best * (100 + threshold_pct)
            ELSE 100 * x.price >= best * (100 - threshold_pct))

\* one side's VWAP: total value / total volume if total volume > 0 else None
VwapSide(l, threshold_pct, is_asks) ==
    LET valid == WithinThreshold(l, threshold_pct, is_asks)
        total_value == TotalValue(valid)
        total_volume == TotalVolume(valid)
    IN  IF valid # <<>> /\ total_volume > 0 THEN Frac(total_value, total_volume) ELSE NoFrac

\* the body after the ladders are chosen: None when either ladder is empty
VwapMid(a, b, threshold_pct) ==
    IF a = EmptyLadder \/ b = EmptyLadder THEN NoFrac
    ELSE LET vwap_asks == VwapSide(a, threshold_pct, TRUE)
             vwap_bids == VwapSide(b, threshold_pct, FALSE)
         IN  IF vwap_asks.kind = "value" /\ vwap_bids.kind = "value"
             THEN Frac(vwap_asks.num * vwap_bids.den + vwap_bids.num * vwap_asks.den,
                       2 * vwap_asks.den * vwap_bids.den)
             ELSE IF vwap_asks.kind = "value" THEN vwap_asks
             ELSE IF vwap_bids.kind = "value" THEN vwap_bids
             ELSE NoFrac

\* order_book.py; timestamp <<>> is the default None; history[timestamp] raises KeyError
calculate_vwap_mid_price(threshold_pct, timestamp) ==
    IF timestamp # <<>>
    THEN IF timestamp \notin Columns(asks_history) \/ timestamp \notin Columns(bids_history)
         THEN RaiseFrac("KeyError")
         ELSE VwapMid(ColumnLadder(asks_history, timestamp),
                      ColumnLadder(bids_history, timestamp), threshold_pct)
    ELSE VwapMid(asks, bids, threshold_pct)

\* market_tracker.py; history.get(timestamp) is None for a missing key
mt_calculate_vwap_mid_price(threshold_pct, timestamp) ==
    IF timestamp # <<>>
    THEN IF timestamp \notin DOMAIN mt_asks_history \/ timestamp \notin DOMAIN mt_bids_history
         THEN NoFrac
         ELSE VwapMid(mt_asks_history[timestamp], mt_bids_history[timestamp], threshold_pct)
    ELSE VwapMid(asks, bids, threshold_pct)

\* ======================= claims =======================
\* the ladder of one side, now and before the last call
LadderNow(side) == IF side = "SELL" THEN asks ELSE bids
LadderBefore(side) == IF side = "SELL" THEN last.asks ELSE last.bids

\* the changes of the last price_change message that name (side, p), by position
Touching(side, p) ==
    {i \in DOMAIN last.message.changes :
        last.message.changes[i].side = side /\ last.message.changes[i].price = p}

RowsAt(l, p) == Cardinality({i \in DOMAIN l : l[i].price = p})

\* a level no change names is what it was: absent, or present with the same size
UntouchedLevelsKept ==
    \A side \in Sides, p \in Prices :
        Touching(side, p) = {} =>
            /\ RowsAt(LadderNow(side), p) = RowsAt(LadderBefore(side), p)
            /\ HasLevel(LadderBefore(side), p) =>
                   SizeAt(LadderNow(side), p) = SizeAt(LadderBefore(side), p)

\* C1: a price-change triple (p, side, s) with s > 0 leaves level p of that side's
\* ladder with size exactly s (not s plus the previous size), creating the level
\* when it was absent; every level no triple names keeps its size.  With several
\* triples on one level the last one decides.
C1_PriceChangeSetsSize ==
    last.op = "update_from_price_change" =>
        /\ \A side \in Sides, p \in Prices :
               Touching(side, p) # {} =>
                   LET change == last.message.changes[SetMax(Touching(side, p))]
                   IN  change.size > 0 =>
                           /\ RowsAt(LadderNow(side), p) = 1
                           /\ SizeAt(LadderNow(side), p) = change.size
        /\ UntouchedLevelsKept

\* C1 witness: one message replaced an existing positive ask level and created
\* a bid level that was absent
C1_Witness ==
    /\ last.op = "update_from_price_change"
    /\ last.raised = "none"
    /\ \E p \in Prices :
           /\ Touching("SELL", p) # {}
           /\ last.message.changes[SetMax(Touching("SELL", p))].size > 0
           /\ HasLevel(last.asks, p) /\ SizeAt(last.asks, p) > 0
           /\ SizeAt(asks, p) = last.message.changes[SetMax(Touching("SELL", p))].size
    /\ \E p \in Prices :
           /\ Touching("BUY", p) # {}
           /\ last.message.changes[SetMax(Touching("BUY", p))].size > 0
           /\ ~HasLevel(last.bids, p)
           /\ HasLevel(bids, p)

\* C2: a price-change triple with size 0 removes the level at its price from the
\* named side when it exists and leaves the levels of both ladders as they were
\* when it is absent (the rows may be re-sorted); every level no triple names is
\* unchanged, and nothing is raised for the absent price.
C2_PriceChangeZeroRemoves ==
    last.op = "update_from_price_change" =>
        /\ \A side \in Sides, p \in Prices :
               Touching(side, p) # {} =>
                   LET change == last.message.changes[SetMax(Touching(side, p))]
                   IN  change.size = 0 => ~HasLevel(LadderNow(side), p)
        /\ UntouchedLevelsKept
        /\ last.raised \in {"none", "ValueError"}
        /\ (Len(last.message.changes) = 1 /\ last.message.changes[1].size = 0
            /\ ~HasLevel(LadderBefore(last.message.changes[1].side), last.message.changes[1].price))
           => (LadderCells(asks) = LadderCells(last.asks)
               /\ LadderCells(bids) = LadderCells(last.bids))

\* C2 witness: one message removed an existing ask level and named an absent bid
\* level with size 0
C2_Witness ==
    /\ last.op = "update_from_price_change"
    /\ last.raised = "none"
    /\ \E p \in Prices :
           /\ Touching("SELL", p) # {}
           /\ \A i \in Touching("SELL", p) : last.message.changes[i].size = 0
           /\ HasLevel(last.asks, p)
           /\ ~HasLevel(asks, p)
    /\ \E p \in Prices :
           /\ Touching("BUY", p) # {}
           /\ \A i \in Touching("BUY", p) : last.message.changes[i].size = 0
           /\ ~HasLevel(last.bids, p)
           /\ bids = last.bids

\* C3: after a book event is applied, in any prior state, asks holds exactly the
\* levels of the event's asks list and bids exactly those of its bids list; no
\* level of the previous ladders survives.
C3_BookReplacesLadders ==
    (last.op = "update_from_book" /\ last.raised # "KeyError") =>
        /\ asks = last.message.asks
        /\ bids = last.message.bids

\* C3 witness: a book event applied on ladders holding a level the event does not name
C3_Witness ==
    /\ last.op = "update_from_book" /\ last.raised = "none"
    /\ \E p \in PricesOf(last.asks) : p \notin PricesOf(last.message.asks)
    /\ \E p \in PricesOf(last.bids) : p \notin PricesOf(last.message.bids)
    /\ asks = last.message.asks

StrictlyAscending(l) == \A i, j \in DOMAIN l : i < j => l[i].price < l[j].price
StrictlyDescending(l) == \A i, j \in DOMAIN l : i < j => l[i].price > l[j].price

\* C4: in every state reached by book and price-change events the prices of asks
\* are strictly ascending and the prices of bids strictly descending, also right
\* after a book event whose lists arrive unsorted.
C4_LaddersSorted == StrictlyAscending(asks) /\ StrictlyDescending(bids)

\* C4, the part the code keeps: right after a price-change event both ladders are sorted
C4_SortedAfterPriceChange ==
    last.op = "update_from_price_change" => C4_LaddersSorted

\* C5: in every state reached by book and price-change events no level of either
\* ladder has a size that is zero or negative.
C5_SizesPositive ==
    /\ \A i \in DOMAIN asks : asks[i].size > 0
    /\ \A i \in DOMAIN bids : bids[i].size > 0

\* the last call was a book or price-change event that went as far as the ladders
EventApplied ==
    /\ last.op \in {"update_from_book", "update_from_price_change"}
    /\ last.raised # "KeyError"

\* C6: right after every applied book or price-change event with timestamp T,
\* T is among timestamps() and snapshot_at(T) returns the levels of the live
\* ladders (order_book.py).
C6_EventAppendsSnapshot ==
    EventApplied =>
        LET T == last.message.timestamp
            snapshot == get_order_book_at_timestamp(T)
        IN  /\ \E i \in DOMAIN get_timestamps : get_timestamps[i] = T
            /\ snapshot.found
            /\ LadderCells(snapshot.asks) = LadderCells(asks)
            /\ LadderCells(snapshot.bids) = LadderCells(bids)

\* C6 as the class of market_tracker.py behaves: its dict history does record
\* every applied event
C6_mt_EventAppendsSnapshot ==
    EventApplied =>
        LET T == last.message.timestamp
            snapshot == mt_get_order_book_at_timestamp(T)
        IN  /\ \E i \in DOMAIN mt_get_timestamps : mt_get_timestamps[i] = T
            /\ snapshot.found
            /\ snapshot.asks = asks
            /\ snapshot.bids = bids

\* C7: clear_history_before(T2) removes exactly the snapshots with a timestamp
\* strictly less than T2: a snapshot stored at T is present and unchanged
\* afterwards when T2 <= T and absent when T2 > T, timestamps compared as the
\* numbers they denote (order_book.py).
C7_PruneRemovesOlder ==
    [][last'.op = "clear_history_before" =>
          \A T \in Timestamps :
              get_order_book_at_timestamp(T).found =>
                  IF TsValue(last'.message.timestamp) <= TsValue(T)
                  THEN get_order_book_at_timestamp(T)' = get_order_book_at_timestamp(T)
                  ELSE ~get_order_book_at_timestamp(T)'.found]_vars

\* C7 for the class of market_tracker.py
C7_mt_PruneRemovesOlder ==
    [][last'.op = "clear_history_before" =>
          \A T \in Timestamps :
              mt_get_order_book_at_timestamp(T).found =>
                  IF TsValue(last'.message.timestamp) <= TsValue(T)
                  THEN mt_get_order_book_at_timestamp(T)' = mt_get_order_book_at_timestamp(T)
                  ELSE ~mt_get_order_book_at_timestamp(T)'.found]_vars

\* C7 as the code behaves: the same with timestamps compared as strings
C7_PruneRemovesOlderAsStr ==
    [][last'.op = "clear_history_before" =>
          \A T \in Timestamps :
              get_order_book_at_timestamp(T).found =>
                  IF ~StrLess(T, last'.message.timestamp)
                  THEN get_order_book_at_timestamp(T)' = get_order_book_at_timestamp(T)
                  ELSE ~get_order_book_at_timestamp(T)'.found]_vars

\* the best level the claims speak of: among the levels with size > 0
BestPositive(l, lowest) ==
    IF PositivePrices(l) = {} THEN None
    ELSE Value(IF lowest THEN SetMin(PositivePrices(l)) ELSE SetMax(PositivePrices(l)))

\* C8: best_ask() is the lowest price among the ask levels with size > 0 and
\* best_bid() the highest price among the bid levels with size > 0; each is None
\* when its ladder has no level with size > 0 (order_book.py).
C8_BestOfPositiveLevels ==
    /\ get_best_ask = BestPositive(asks, TRUE)
    /\ get_best_bid = BestPositive(bids, FALSE)

\* C8 for the class of market_tracker.py
C8_mt_BestOfPositiveLevels ==
    /\ mt_get_best_ask = BestPositive(asks, TRUE)
    /\ mt_get_best_bid = BestPositive(bids, FALSE)

\* C9: spread() is best ask price minus best bid price when both sides have a
\* best level and None when either side has none.  Stated on ladders whose sizes
\* are all positive, where get_best_ask / get_best_bid do return the best levels.
C9_SpreadIsDifference ==
    C5_SizesPositive =>
        get_spread =
            IF get_best_ask.kind = "value" /\ get_best_bid.kind = "value"
            THEN Value(get_best_ask.value - get_best_bid.value)
            ELSE None

\* C9, the part the code keeps: None when a ladder is empty
C9_SpreadNoneWhenSideEmpty ==
    (asks = EmptyLadder \/ bids = EmptyLadder) => get_spread = None

\* one side's VWAP taken on its own ladder: None for an empty ladder
SideVwap(l, threshold_pct, is_asks) ==
    IF l = EmptyLadder THEN NoFrac ELSE VwapSide(l, threshold_pct, is_asks)

\* C10: vwap_mid is the average of the two sides' VWAP when both sides have one,
\* the one side's VWAP when only one side has one (the other ladder empty), and
\* None only when neither side has one.
C10_VwapMidCases ==
    \A threshold_pct \in Thresholds :
        LET va == SideVwap(asks, threshold_pct, TRUE)
            vb == SideVwap(bids, threshold_pct, FALSE)
            mid == calculate_vwap_mid_price(threshold_pct, <<>>)
        IN  /\ (va.kind = "value" /\ vb.kind = "value") =>
                   FracEq(mid, Frac(va.num * vb.den + vb.num * va.den, 2 * va.den * vb.den))
            /\ (va.kind = "value" /\ vb.kind = "None") => FracEq(mid, va)
            /\ (va.kind = "None" /\ vb.kind = "value") => FracEq(mid, vb)
            /\ (va.kind = "None" /\ vb.kind = "None") <=> mid.kind = "None"

\* C10, the part the code keeps: the average when both ladders have volume
C10_VwapMidAverage ==
    \A threshold_pct \in Thresholds :
        LET va == SideVwap(asks, threshold_pct, TRUE)
            vb == SideVwap(bids, threshold_pct, FALSE)
            mid == calculate_vwap_mid_price(threshold_pct, <<>>)
        IN  (va.kind = "value" /\ vb.kind = "value") =>
                FracEq(mid, Frac(va.num * vb.den + vb.num * va.den, 2 * va.den * vb.den))

C19_FailedEventLeavesBook ==
    [][last'.raised = "KeyError" => UNCHANGED book_vars]_vars

\* the snapshot order_book.py returns for a timestamp, as levels
SnapshotAt(timestamp) ==
    LET b == get_order_book_at_timestamp(timestamp)
    IN  [found |-> b.found, asks |-> LadderCells(b.asks), bids |-> LadderCells(b.bids)]

mt_SnapshotAt(timestamp) ==
    LET b == mt_get_order_book_at_timestamp(timestamp)
    IN  [found |-> b.found, asks |-> LadderCells(b.asks), bids |-> LadderCells(b.bids)]

\* C20: once a snapshot is recorded for a timestamp, a later book or price_change
\* event (with the same timestamp or another) leaves what
\* get_order_book_at_timestamp returns for it unchanged (order_book.py).
C20_SnapshotImmutable ==
    [][\A timestamp \in Timestamps :
          (SnapshotAt(timestamp).found
             /\ last'.op \in {"update_from_book", "update_from_price_change"})
          => SnapshotAt(timestamp)' = SnapshotAt(timestamp)]_vars

\* C20 for the OrderBook of market_tracker.py
C20_mt_SnapshotImmutable ==
    [][\A timestamp \in Timestamps :
          (mt_SnapshotAt(timestamp).found
             /\ last'.op \in {"update_from_book", "update_from_price_change"})
          => mt_SnapshotAt(timestamp)' = mt_SnapshotAt(timestamp)]_vars

\* ---- MarketChannel claims ----
\* the step is a recv() that returned a frame to task ch_last'.task
Received == received' = received + 1

\* the places in calls' of the invocations the step made for the event at pos
NewCallsAt(pos) ==
    {j \in (Len(calls) + 1)..Len(calls') : calls'[j].pos = pos}

\* C12: a callback that raises does not abort delivery: for every event of a
\* received frame each callback in the list of the event's asset is invoked once,
\* whatever the callbacks before it or the earlier events of the frame raised, and
\* the reader goes back to its loop.
C12_RaisingCallbackDoesNotAbort ==
    [][Received =>
          /\ \A k \in DOMAIN ch_last'.frame.messages :
                LET list == CallbacksFor(callbacks, ch_last'.frame.messages[k])
                IN  /\ Cardinality(NewCallsAt(k)) = Len(list)
                    /\ \A c \in Callbacks :
                          Cardinality({j \in NewCallsAt(k) : calls'[j].callback = c})
                            = Cardinality({i \in DOMAIN list : list[i] = c})
          /\ tasks'[ch_last'.task].pc = "loop"]_vars

\* C12 witness: "fail" raised on the first event of a frame, "apply" was invoked
\* after it for the same event, both were invoked for the next event of the frame
\* and "fail" again for a later frame
C12_Witness ==
    \E i \in DOMAIN calls, j \in DOMAIN calls, k \in DOMAIN calls :
        /\ i + 1 \in DOMAIN calls
        /\ calls[i].callback = "fail"
        /\ calls[i + 1].callback = "apply"
        /\ calls[i + 1].frame = calls[i].frame /\ calls[i + 1].pos = calls[i].pos
        /\ calls[j].callback = "apply"
        /\ calls[j].frame = calls[i].frame /\ calls[j].pos > calls[i].pos
        /\ calls[k].callback = "fail" /\ calls[k].frame > calls[i].frame

\* the invocations the step made for the event at pos, in order
RECURSIVE CallsFrom(_, _)
CallsFrom(j, pos) ==
    IF j > Len(calls') THEN <<>>
    ELSE IF calls'[j].pos = pos
         THEN <<<<calls'[j].callback, calls'[j].outcome, calls'[j].data>>>>
                  \o CallsFrom(j + 1, pos)
         ELSE CallsFrom(j + 1, pos)

\* C13: for an event of a received frame the callbacks registered for its asset
\* id are invoked in registration order, each with the outcome label of the asset
\* and the event; an event whose asset has no callback invokes nothing.
\* add_outcome_callback registers at the end of the list.
C13_DispatchInRegistrationOrder ==
    /\ [][Received =>
             \A k \in DOMAIN ch_last'.frame.messages :
                LET data == ch_last'.frame.messages[k]
                    made == CallsFrom(Len(calls) + 1, k)
                IN  IF "asset_id" \in DOMAIN data /\ data.asset_id \in DOMAIN callbacks
                    THEN /\ Len(made) = Len(callbacks[data.asset_id])
                         /\ \A i \in DOMAIN made :
                               /\ made[i][1] = callbacks[data.asset_id][i]
                               /\ made[i][2] \in Outcomes
                               /\ outcomes_id[made[i][2]] = data.asset_id
                               /\ made[i][3] = data
                    ELSE made = <<>>]_vars
    /\ [][\A a \in DOMAIN callbacks' :
             LET old == IF a \in DOMAIN callbacks THEN callbacks[a] ELSE <<>>
             IN  Len(callbacks'[a]) > Len(old)
                   => SubSeq(callbacks'[a], 1, Len(old)) = old]_vars

\* C13 witness: "apply" then "fail" are registered for an asset and were invoked
\* in that order for one event; another event of the frames had no callback
C13_Witness ==
    /\ \E a \in DOMAIN callbacks : callbacks[a] = <<"apply", "fail">>
    /\ \E i \in DOMAIN calls :
          /\ i + 1 \in DOMAIN calls
          /\ calls[i].callback = "apply" /\ calls[i + 1].callback = "fail"
          /\ calls[i + 1].frame = calls[i].frame /\ calls[i + 1].pos = calls[i].pos
          /\ calls[i].outcome = "Yes" /\ calls[i].data.asset_id = "A1"
    /\ ch_last.op = "recv"
    /\ \E k \in DOMAIN ch_last.frame.messages :
          \A i \in DOMAIN calls : ~(calls[i].frame = received /\ calls[i].pos = k)

\* C14: the invocations are in frame order and, within a frame, in the order of
\* the events in the frame's array; a frame with a book and then a trade of an
\* asset whose callback applies events replaces the ladders and appends the trade.
C14_ArrayOrder ==
    /\ [](\A i \in DOMAIN calls, j \in DOMAIN calls :
             i < j => \/ calls[i].frame < calls[j].frame
                      \/ calls[i].frame = calls[j].frame /\ calls[i].pos <= calls[j].pos)
    /\ [][(Received /\ ch_last'.frame = BatchFrame /\ "A1" \in DOMAIN callbacks
             /\ \E i \in DOMAIN callbacks["A1"] : callbacks["A1"][i] = "apply")
          => /\ asks' = BatchFrame.messages[1].asks
             /\ bids' = BatchFrame.messages[1].bids
             /\ Len(trades') > Len(trades)
             /\ trades'[Len(trades')] = TradeRow(BatchFrame.messages[2])
             /\ \E i \in NewCallsAt(1), j \in NewCallsAt(2) :
                   /\ i < j
                   /\ calls'[i].data.event_type = "book"
                   /\ calls'[j].data.event_type = "last_trade_price"]_vars

\* C14 witness: the batched frame came second; its book replaced the ladders the
\* first frame had left and its trade is on the tape, after the first frame's
C14_Witness ==
    /\ ch_last.op = "recv" /\ ch_last.frame = BatchFrame /\ received = 2
    /\ asks = BatchFrame.messages[1].asks
    /\ trades # <<>> /\ trades[Len(trades)] = TradeRow(BatchFrame.messages[2])
    /\ \E i \in DOMAIN calls, j \in DOMAIN calls, k \in DOMAIN calls :
          /\ calls[i].frame = 1 /\ calls[i].callback = "apply"
          /\ calls[j].frame = 2 /\ calls[j].pos = 1 /\ calls[j].callback = "apply"
          /\ calls[k].frame = 2 /\ calls[k].pos = 2 /\ calls[k].callback = "apply"
          /\ i < j /\ j < k

\* C15: once close() has returned (and connect() is not called again) no callback
\* is invoked, no frame is read from a socket and no socket is opened; a second
\* close() changes nothing.
C15_NothingAfterClose ==
    [][(closed /\ closed') =>
          /\ calls' = calls
          /\ received' = received
          /\ Len(sockets') = Len(sockets)
          /\ running' = running]_vars

\* C16: a connect() that raises leaves self.running as it was before the call.
C16_FailedConnectKeepsRunning ==
    (ch_last.op = "connect" /\ ch_last.raised # "none") => running = ch_last.running

\* task t finds its connection closed in this step
Detects(t) ==
    /\ tasks[t].pc = "recv"
    /\ sockets[tasks[t].sock] = "closed"
    /\ tasks'[t] # tasks[t]

\* C17: when the reader finds the connection closed while the channel is meant to
\* run, it goes on to reconnect (the handler does not return, or a socket is
\* opened); when the channel is not meant to run it returns and opens nothing.
C17_ReconnectWhenRunning ==
    [][\A t \in DOMAIN tasks :
          Detects(t) =>
             IF running
             THEN tasks'[t].pc # "done" \/ Len(sockets') > Len(sockets)
             ELSE tasks'[t].pc = "done" /\ sockets' = sockets]_vars

\* the attempts the reconnect procedure makes before it gives up
max_reconnect_attempts == 5

\* C18: a handler that has returned after it lost the connection while the channel
\* was meant to run has made max_reconnect_attempts attempts to connect.
C18_BoundedReconnect ==
    \A t \in DOMAIN tasks :
        (tasks[t].exit = "ConnectionClosed" /\ ch_last.task = t
           /\ ch_last.raised = "ConnectionClosed" /\ ch_last.running)
        => tasks[t].attempts = max_reconnect_attempts

\* ---- history queries ----
\* a list of timestamps is in chronological order: ascending as numbers
Chronological(list) ==
    \A i, j \in DOMAIN list : i < j => TsValue(list[i]) < TsValue(list[j])

\* C21: get_timestamps returns the timestamps of the retained snapshots, each
\* once, in chronological order (order_book.py; stated for the histories whose
\* two sides hold the same timestamps).
C21_TimestampsChronological ==
    Columns(asks_history) = Columns(bids_history) =>
        /\ {get_timestamps[i] : i \in DOMAIN get_timestamps}
             = {t \in Timestamps : get_order_book_at_timestamp(t).found}
        /\ Len(get_timestamps) = Cardinality(Columns(asks_history))
        /\ Chronological(get_timestamps)

\* C21 for the OrderBook of market_tracker.py
C21_mt_TimestampsChronological ==
    /\ {mt_get_timestamps[i] : i \in DOMAIN mt_get_timestamps}
         = {t \in Timestamps : mt_get_order_book_at_timestamp(t).found}
    /\ Len(mt_get_timestamps) = Cardinality(DOMAIN mt_asks_history)
    /\ Chronological(mt_get_timestamps)

\* C23: calculate_vwap_mid_price for a timestamp with no retained snapshot returns
\* None and raises nothing; for a retained one it is computed on the snapshot's
\* ladders (order_book.py).
C23_VwapAtTimestamp ==
    \A threshold_pct \in Thresholds, timestamp \in Timestamps :
        LET b == get_order_book_at_timestamp(timestamp)
            mid == calculate_vwap_mid_price(threshold_pct, timestamp)
        IN  IF b.found THEN FracEq(mid, VwapMid(b.asks, b.bids, threshold_pct))
            ELSE mid.kind = "None"

\* C23 for the OrderBook of market_tracker.py
C23_mt_VwapAtTimestamp ==
    \A threshold_pct \in Thresholds, timestamp \in Timestamps :
        LET b == mt_get_order_book_at_timestamp(timestamp)
            mid == mt_calculate_vwap_mid_price(threshold_pct, timestamp)
        IN  IF b.found THEN FracEq(mid, VwapMid(b.asks, b.bids, threshold_pct))
            ELSE mid.kind = "None"

\* C29: the asks history and the bids history hold the same timestamps
\* (order_book.py), and clear_history_before raises nothing.
C29_HistoriesSameTimestamps ==
    /\ Columns(asks_history) = Columns(bids_history)
    /\ last.op = "clear_history_before" => last.raised = "none"

\* C29 for the OrderBook of market_tracker.py
C29_mt_HistoriesSameTimestamps ==
    DOMAIN mt_asks_history = DOMAIN mt_bids_history

\* C26: at most one socket is open and at most one reader task is active.
C26_OneSocketOneReader ==
    /\ Cardinality({s \in DOMAIN sockets : sockets[s] = "open"}) <= 1
    /\ Cardinality({t \in DOMAIN tasks : tasks[t].pc # "done"}) <= 1

\* the event type each handler acts on
HandledType(op) ==
    IF op = "update_from_book" THEN "book"
    ELSE IF op = "update_from_price_change" THEN "price_change"
    ELSE "last_trade_price"

\* C22: a handler called with an event of another type than its own
\* (tick_size_change and unknown types included) raises nothing and leaves asks,
\* bids, the last trade, the tape and both histories as they were
C22_OtherTypeIsNoOp ==
    [][(steps' = steps + 1 /\ last'.message.event_type # HandledType(last'.op))
        => /\ last'.raised = "none"
           /\ UNCHANGED <<book_vars, trade_vars>>]_vars

\* a book with levels and a snapshot was handed a price_change or
\* tick_size_change event by update_from_book and is as it was
C22_Witness ==
    /\ steps = MaxEvents
    /\ asks # EmptyLadder
    /\ Columns(asks_history) # {}
    /\ last.asks = asks
    /\ last.op = "update_from_book"
    /\ last.message.event_type \in {"price_change", "tick_size_change"}
    /\ last.raised = "none"

\* the prices of the levels one side's VWAP is taken over
IncludedPrices(l, threshold_pct, is_asks) == PricesOf(WithinThreshold(l, threshold_pct, is_asks))

\* lo <= x <= hi for a fraction x
FracWithin(x, lo, hi) == lo * x.den <= x.num /\ x.num <= hi * x.den

\* C24, first part: when vwap_mid is not None, the VWAP of each side that has one
\* lies between the lowest and the highest price of the levels included on that side
C24_VwapWithinIncludedPrices ==
    \A threshold_pct \in Thresholds :
        LET va == SideVwap(asks, threshold_pct, TRUE)
            vb == SideVwap(bids, threshold_pct, FALSE)
            ia == IncludedPrices(asks, threshold_pct, TRUE)
            ib == IncludedPrices(bids, threshold_pct, FALSE)
        IN  calculate_vwap_mid_price(threshold_pct, <<>>).kind = "value" =>
                /\ va.kind = "value" => FracWithin(va, SetMin(ia), SetMax(ia))
                /\ vb.kind = "value" => FracWithin(vb, SetMin(ib), SetMax(ib))

\* C24, second part as claimed: with threshold_pct = 0 a vwap_mid that is not None
\* is the average of the best ask and the best bid
C24_ZeroThresholdIsMidOfBest ==
    calculate_vwap_mid_price(0, <<>>).kind = "value" =>
        FracEq(calculate_vwap_mid_price(0, <<>>),
               Frac(SetMin(PricesOf(asks)) + SetMax(PricesOf(bids)), 2))

\* C24, second part for the sides that have a VWAP: with threshold_pct = 0 it is
\* that side's best price
C24_ZeroThresholdSideIsBest ==
    calculate_vwap_mid_price(0, <<>>).kind = "value" =>
        /\ SideVwap(asks, 0, TRUE).kind = "value" =>
               FracEq(SideVwap(asks, 0, TRUE), Frac(SetMin(PricesOf(asks)), 1))
        /\ SideVwap(bids, 0, FALSE).kind = "value" =>
               FracEq(SideVwap(bids, 0, FALSE), Frac(SetMax(PricesOf(bids)), 1))

\* the list registry reg holds for asset a, <<>> when it has no entry
ListOf(reg, a) == IF a \in DOMAIN reg THEN reg[a] ELSE <<>>

\* list without its element at place i
Without(list, i) == SubSeq(list, 1, i - 1) \o SubSeq(list, i + 1, Len(list))

\* C25: add_outcome_callback appends the callback to the list of the outcome's
\* asset, duplicates included; remove_outcome_callback takes out the first
\* occurrence of the callback only, the others keep their order, and the asset's
\* entry goes when its list becomes empty; removing a callback that is not in
\* the list changes nothing; no other asset's list changes; and no asset id of
\* the registry ever maps to an empty list.
C25_RegistryAppendsAndRemovesFirst ==
    /\ [](\A a \in DOMAIN callbacks : callbacks[a] # <<>>)
    /\ [][LET a == outcomes_id[reg_last'.outcome]
              c == reg_last'.callback
              old == ListOf(callbacks, a)
              new == ListOf(callbacks', a)
              at == {i \in DOMAIN old : old[i] = c}
          IN  /\ \A b \in AssetIds \ {a} :
                    /\ b \in DOMAIN callbacks' <=> b \in DOMAIN callbacks
                    /\ ListOf(callbacks', b) = ListOf(callbacks, b)
              /\ reg_last'.op = "add_outcome_callback" =>
                    /\ a \in DOMAIN callbacks'
                    /\ new = Append(old, c)
              /\ reg_last'.op = "remove_outcome_callback" =>
                    IF at = {} THEN callbacks' = callbacks
                    ELSE /\ new = Without(old, SetMin(at))
                         /\ a \in DOMAIN callbacks' <=> Len(old) > 1]_vars

\* C25 witness: "apply" was removed from a list of three that held it twice and
\* "fail" once: "fail" and the later "apply" are left, in that order
C25_Witness ==
    /\ reg_last = RegCall("remove_outcome_callback", "Yes", "apply")
    /\ DOMAIN callbacks = {"A1"}
    /\ callbacks["A1"] = <<"fail", "apply">>

\* how often callback c is in list
Occurrences(list, c) == Cardinality({i \in DOMAIN list : list[i] = c})

\* C27: routing isolation. Every invocation made for a received frame is for an
\* event of the frame that carries the id of one of the channel's assets, goes to
\* a callback registered for that asset, no more often than the callback is in
\* that asset's list, and carries that asset's outcome label; an event without
\* 'asset_id' or with an id the channel does not know invokes nothing; and the
\* reader is back in its loop.
C27_RoutingIsolation ==
    [][Received =>
          /\ \A j \in (Len(calls) + 1)..Len(calls') :
                LET call == calls'[j]
                IN  /\ call.pos \in DOMAIN ch_last'.frame.messages
                    /\ call.data = ch_last'.frame.messages[call.pos]
                    /\ "asset_id" \in DOMAIN call.data
                    /\ call.data.asset_id \in AssetIds
                    /\ call.outcome \in Outcomes
                    /\ outcomes_id[call.outcome] = call.data.asset_id
                    /\ Occurrences(ListOf(callbacks, call.data.asset_id), call.callback) > 0
          /\ \A k \in DOMAIN ch_last'.frame.messages :
                LET data == ch_last'.frame.messages[k]
                IN  IF "asset_id" \in DOMAIN data /\ data.asset_id \in AssetIds
                    THEN \A c \in Callbacks :
                            Cardinality({j \in NewCallsAt(k) : calls'[j].callback = c})
                              <= Occurrences(ListOf(callbacks, data.asset_id), c)
                    ELSE NewCallsAt(k) = {}
          /\ tasks'[ch_last'.task].pc = "loop"]_vars

\* C27 witness: with "apply" registered for A1 and "fail" for A2, a frame with an
\* event of A1 and one of A2 invoked "apply" with "Yes" for the first and "fail"
\* with "No" for the second and nothing else; the next frame, an event of an
\* unknown asset and one without asset_id, invoked nothing and the reader is in
\* its loop
C27_Witness ==
    /\ received = 2
    /\ ch_last.op = "recv"
    /\ ch_last.frame.messages = <<TradeEvent("AX"), NoAssetEvent>>
    /\ tasks[ch_last.task].pc = "loop"
    /\ DOMAIN callbacks = {"A1", "A2"}
    /\ callbacks["A1"] = <<"apply">> /\ callbacks["A2"] = <<"fail">>
    /\ Len(calls) = 2
    /\ calls[1] = [callback |-> "apply", outcome |-> "Yes", data |-> PriceChangeEvent("A1"),
                   frame |-> 1, pos |-> 1]
    /\ calls[2] = [callback |-> "fail", outcome |-> "No", data |-> TradeEvent("A2"),
                   frame |-> 1, pos |-> 2]

\* C28: when a callback changes the registry while a frame is delivered, every
\* callback that is registered for the asset of an event and is not removed
\* during the delivery is invoked for that event as often as it is registered.
C28_RegisteredCallbacksStillInvoked ==
    [][Received =>
          \A k \in DOMAIN ch_last'.frame.messages :
             LET data == ch_last'.frame.messages[k]
             IN  ("asset_id" \in DOMAIN data /\ data.asset_id \in AssetIds) =>
                    \A c \in ReentrantCallbacks :
                       LET before == Occurrences(ListOf(callbacks, data.asset_id), c)
                           after == Occurrences(ListOf(callbacks', data.asset_id), c)
                       IN  after = before =>
                             Cardinality({j \in NewCallsAt(k) : calls'[j].callback = c})
                               = before]_vars
====
